---- MODULE Spec2Model ----
(***************************************************************************)
(* Point-in-time panel reconstruction of jaqs.data.dataservice             *)
(* (RemoteDataService): index membership, index weights, industry          *)
(* classification and price-adjustment factors, each turned from sparse    *)
(* event rows into a dense (trading date x symbol) panel.                  *)
(*                                                                         *)
(* Every query is a synchronous call: the caller is "idle", calls one      *)
(* operation with arguments and a raw fetch result supplied by the remote  *)
(* collaborators, and receives what the operation hands back (a panel or   *)
(* a raised exception).  Dates are abstracted to 1..MaxDate; the trading   *)
(* calendar is any subset of them.                                         *)
(* The minute-bar request and the Singleton registry the service is made   *)
(* through are modelled beside the panel operations.                       *)
(***************************************************************************)
EXTENDS Integers, Sequences, FiniteSets, TLC

\* ---------------------------------------------------------------- bounds
MaxDate == 3
MaxRows == 2
PeriodLen == 2
MaxInits == 3

Symbols == {"a", "b"}
Dates == 1..MaxDate
Calendars == SUBSET Dates

\* The open-ended sentinel of str2int (line 575).
OpenEnded == 99999999

\* calendar: the trading days the calendar collaborator knows (fixed for the
\* life of the service); pc, call, fetched: the caller's position, the
\* call it made and what the remote fetch gave; ret, stdout: what the
\* operation handed back and what it printed; instances: the registry
\* Singleton._instances; inits, logins: how many times the constructor and
\* the remote login have run.
VARIABLES calendar, pc, call, fetched, ret, stdout, instances, inits, logins

vars == <<calendar, pc, call, fetched, ret, stdout, instances, inits, logins>>

\* ------------------------------------------------------- numeric values
\* A number as numpy holds it: an integer value, or not-a-number.
Num(n) == [nan |-> FALSE, v |-> n]
NaNv == [nan |-> TRUE, v |-> 0]

\* numpy comparison: anything compared with NaN is False.
Gt(x, y) == ~x.nan /\ ~y.nan /\ x.v > y.v
Lt(x, y) == ~x.nan /\ ~y.nan /\ x.v < y.v

\* ------------------------------------------------------------- sequences
SetMin(S) == CHOOSE x \in S : \A y \in S : x <= y
SetMax(S) == CHOOSE x \in S : \A y \in S : x >= y

RECURSIVE SortedSeq(_)
SortedSeq(S) == IF S = {} THEN <<>>
                ELSE LET m == SetMin(S) IN <<m>> \o SortedSeq(S \ {m})

Range(s) == {s[i] : i \in DOMAIN s}

\* ------------------------------------------------------ trading calendar
\* Calendar.get_trade_date_range: the ordered trading dates of cal within
\* [start_date, end_date], both ends included.
CalendarRange(cal, start_date, end_date) ==
    SortedSeq({d \in cal : start_date <= d /\ d <= end_date})

get_trade_date_range(cal, start_date, end_date) ==
    CalendarRange(cal, start_date, end_date)

\* ------------------------------------------------------------ raw fields
\* A field of a fetched row, before coercion: a text (a sequence of
\* characters), an int, a float, or a value of another type (None).
Str(chars) == [t |-> "str", s |-> chars, v |-> NaNv]
IntVal(n) == [t |-> "int", s |-> <<>>, v |-> Num(n)]
FloatNaN == [t |-> "float", s |-> <<>>, v |-> NaNv]
NoneVal == [t |-> "none", s |-> <<>>, v |-> NaNv]

DigitChars == <<"0", "1", "2", "3", "4", "5", "6", "7", "8", "9">>

IsDigit(c) == \E i \in DOMAIN DigitChars : DigitChars[i] = c
DigitVal(c) == (CHOOSE i \in DOMAIN DigitChars : DigitChars[i] = c) - 1

\* str(n) for n >= 0.
RECURSIVE IntToText(_)
IntToText(n) == IF n < 10 THEN <<DigitChars[n + 1]>>
                ELSE IntToText(n \div 10) \o <<DigitChars[(n % 10) + 1]>>

\* int(s) for a non-empty text of decimal digits.
RECURSIVE ParseInt(_)
ParseInt(chars) ==
    IF Len(chars) = 1 THEN DigitVal(chars[1])
    ELSE 10 * ParseInt(SubSeq(chars, 1, Len(chars) - 1)) + DigitVal(chars[Len(chars)])

Ok(x) == [ok |-> TRUE, v |-> x, exc |-> "none"]
Err(e) == [ok |-> FALSE, v |-> NaNv, exc |-> e]

\* str2int of get_index_comp_df: a text is parsed (blank: the sentinel),
\* an int or a float is handed back as it is, anything else is rejected.
str2int_blank_zero(s) ==
    IF s.t = "str"
    THEN IF s.s # <<>>
         THEN IF \A i \in DOMAIN s.s : IsDigit(s.s[i])
              THEN Ok(Num(ParseInt(s.s)))
              ELSE Err("ValueError")
         ELSE Ok(Num(0))
    ELSE IF s.t \in {"int", "float"}
         THEN Ok(s.v)
         ELSE Err("NotImplementedError")

str2int(s) ==
    IF s.t = "str"
    THEN IF s.s # <<>>
         THEN IF \A i \in DOMAIN s.s : IsDigit(s.s[i])
              THEN Ok(Num(ParseInt(s.s)))
              ELSE Err("ValueError")
         ELSE Ok(Num(OpenEnded))
    ELSE IF s.t \in {"int", "float"}
         THEN Ok(s.v)
         ELSE Err("NotImplementedError")

\* ------------------------------------------------------------ panels
\* The sequence s as an explicit tuple.
AsTuple(s) == s \o <<>>

SymbolSeq == <<"a", "b">>

\* sorted(S) for a set of symbols.
SortedSyms(S) == SelectSeq(SymbolSeq, LAMBDA x : x \in S)

\* A DataFrame: its row labels in order, its column labels in order, and
\* its cells column by column: data[j][k] is the cell of column j, row k.
Panel(index, columns, data) == [index |-> index, columns |-> columns, data |-> data]

RowPos(p, d) == CHOOSE k \in DOMAIN p.index : p.index[k] = d
ColPos(p, e) == CHOOSE j \in DOMAIN p.columns : p.columns[j] = e
Cell(p, d, e) == p.data[ColPos(p, e)][RowPos(p, d)]

\* What a call hands back: `return res` (the panel alone, no message
\* beside it), or an exception.
Value(p) == [kind |-> "value", panel |-> p, exc |-> "none", msg |-> "none"]
Raise(e) == [kind |-> "raise", panel |-> Panel(<<>>, <<>>, <<>>), exc |-> e, msg |-> "none"]
NoRet == [kind |-> "none", panel |-> Panel(<<>>, <<>>, <<>>), exc |-> "none", msg |-> "none"]

\* `if msg != '0,': print msg`
PrintIfError(msg) == IF msg # "0," THEN <<msg>> ELSE <<>>

StatusMsgs == {"0,", "-1,error"}

\* ============================================================ index comp
\* One row of lb.indexCons: symbol, in_date, out_date.
CompRow(sym, i, o) == [symbol |-> sym, in_date |-> i, out_date |-> o]

\* dates > row['in_date'] and dates < row['out_date'], for one date.
InsideRow_inclusive(d, i, o) == (Gt(Num(d), i) \/ Num(d) = i) /\ Lt(Num(d), o)

InsideRow(d, i, o) == Gt(Num(d), i) /\ Lt(Num(d), o)

\* The inner loop over the rows of one symbol: mask starts as zeros and
\* every row sets its dates to 1.
RECURSIVE MaskLoop(_, _, _, _, _, _, _)
MaskLoop(rows, ins, outs, dates, sec, k, mask) ==
    IF k > Len(rows) THEN mask
    ELSE MaskLoop(rows, ins, outs, dates, sec, k + 1,
                  IF rows[k].symbol = sec
                  THEN AsTuple([i \in DOMAIN dates |->
                          IF InsideRow(dates[i], ins[k], outs[k]) THEN 1 ELSE mask[i]])
                  ELSE mask)

\* The first exception the apply of str2int over one column raises.
FirstError(col) ==
    LET bad == {k \in DOMAIN col : ~col[k].ok}
    IN IF bad = {} THEN "none" ELSE col[SetMin(bad)].exc

get_index_comp_df(rows, dates) ==
    LET ins == AsTuple([k \in DOMAIN rows |-> str2int(rows[k].in_date)])
        outs == AsTuple([k \in DOMAIN rows |-> str2int(rows[k].out_date)])
    IN IF FirstError(ins) # "none" THEN Raise(FirstError(ins))
       ELSE IF FirstError(outs) # "none" THEN Raise(FirstError(outs))
       ELSE LET secs == SortedSyms({rows[k].symbol : k \in DOMAIN rows})
                iv == AsTuple([k \in DOMAIN rows |-> ins[k].v])
                ov == AsTuple([k \in DOMAIN rows |-> outs[k].v])
                zeros == AsTuple([i \in DOMAIN dates |-> 0])
            IN Value(Panel(dates, secs,
                     AsTuple([j \in DOMAIN secs |->
                                MaskLoop(rows, iv, ov, dates, secs[j], 1, zeros)])))

\* Rows as the remote table holds them: dates as decimal text, a blank
\* out_date for a symbol that is still a component.  The k-th row of the
\* enumeration, ordered by symbol, in_date, out_date.

CleanOut(j) == IF j = MaxDate - 1 THEN Str(<<>>) ELSE Str(IntToText(j + 2))

\* in_date in 1..MaxDate-1, out_date in 2..MaxDate or blank.
CleanCompRows ==
    [k \in 1..(Len(SymbolSeq) * (MaxDate - 1) * MaxDate) |->
        CompRow(SymbolSeq[((k - 1) \div ((MaxDate - 1) * MaxDate)) + 1],
                Str(IntToText((((k - 1) \div MaxDate) % (MaxDate - 1)) + 1)),
                CleanOut((k - 1) % MaxDate))]

\* Rows whose date fields come in every type the coercion distinguishes.
DirtyIn == <<Str(<<"1">>), IntVal(1), NoneVal>>
DirtyOut == <<Str(<<>>), Str(IntToText(MaxDate)), FloatNaN, Str(<<"x">>)>>

DirtyCompRows ==
    [k \in 1..(Len(SymbolSeq) * Len(DirtyIn) * Len(DirtyOut)) |->
        CompRow(SymbolSeq[((k - 1) \div (Len(DirtyIn) * Len(DirtyOut))) + 1],
                DirtyIn[(((k - 1) \div Len(DirtyOut)) % Len(DirtyIn)) + 1],
                DirtyOut[((k - 1) % Len(DirtyOut)) + 1])]

\* The fetches of at most MaxRows rows out of the enumeration RowSeq, in
\* the order of the enumeration (the query asks orderby="symbol").
RECURSIVE OrderedPicks(_, _, _)
OrderedPicks(n, lo, hi) ==
    IF n = 0 THEN {<<>>}
    ELSE UNION {{<<k>> \o rest : rest \in OrderedPicks(n - 1, k, hi)} : k \in lo..hi}

Fetches(RowSeq) ==
    UNION {{[i \in DOMAIN pick |-> RowSeq[pick[i]]] :
              pick \in OrderedPicks(n, 1, Len(RowSeq))} : n \in 0..MaxRows}

CallIndexCompDf(RowSeq, Msgs) ==
    /\ pc = "idle"
    /\ \E msg \in Msgs, rows \in Fetches(RowSeq) :
            /\ call' = [op |-> "get_index_comp_df", start_date |-> 1, end_date |-> MaxDate]
            /\ fetched' = [rows |-> rows, msg |-> msg]
            /\ stdout' = PrintIfError(msg)
            /\ ret' = get_index_comp_df(rows, get_trade_date_range(calendar, 1, MaxDate))
    /\ pc' = "done"
    /\ UNCHANGED <<calendar, instances, inits, logins>>

\* ======================================================== floating values
\* A float cell: the exact ratio n/d (d > 0, lowest terms), not-a-number
\* (0/0) or infinity (1/0).  Rounding is not modelled.
RECURSIVE Gcd(_, _)
Gcd(x, y) == IF y = 0 THEN x ELSE Gcd(y, x % y)

Q(n, d) == IF n = 0 THEN [n |-> 0, d |-> 1]
           ELSE [n |-> n \div Gcd(n, d), d |-> d \div Gcd(n, d)]
QNaN == [n |-> 0, d |-> 0]
QInf == [n |-> 1, d |-> 0]
QOne == [n |-> 1, d |-> 1]
IsNaN(x) == x = QNaN
IsFinite(x) == x.d # 0

\* IEEE division of two cells that are finite or NaN: x/0 is infinite for
\* x # 0, 0/0 is NaN.
QDiv(x, y) ==
    IF IsNaN(x) \/ IsNaN(y) THEN QNaN
    ELSE IF y.n = 0 THEN (IF x.n = 0 THEN QNaN ELSE QInf)
    ELSE Q(x.n * y.d, x.d * y.n)

\* ----------------------------------------------------- DataFrame helpers
\* fillna(method='ffill') on one column: a NaN cell takes the last filled
\* cell above it.
RECURSIVE FfillCol(_, _, _, _)
FfillCol(col, k, last, acc) ==
    IF k > Len(col) THEN acc
    ELSE LET cur == IF IsNaN(col[k]) THEN last ELSE col[k]
         IN FfillCol(col, k + 1, cur, Append(acc, cur))

\* fillna(method='bfill') on one column: a NaN cell takes the first filled
\* cell below it.
RECURSIVE BfillCol(_, _, _, _)
BfillCol(col, k, next, acc) ==
    IF k < 1 THEN acc
    ELSE LET cur == IF IsNaN(col[k]) THEN next ELSE col[k]
         IN BfillCol(col, k - 1, cur, <<cur>> \o acc)

ffill(p) == Panel(p.index, p.columns,
                  AsTuple([j \in DOMAIN p.columns |-> FfillCol(p.data[j], 1, QNaN, <<>>)]))

bfill(p) == Panel(p.index, p.columns,
                  AsTuple([j \in DOMAIN p.columns |->
                             BfillCol(p.data[j], Len(p.data[j]), QNaN, <<>>)]))

\* DataFrame.reindex(dates): the rows of dates; a date that was no row
\* label gives a row of NaN, a row label that is no date is dropped.
reindex(p, dates) ==
    Panel(dates, p.columns,
          AsTuple([j \in DOMAIN p.columns |->
             AsTuple([k \in DOMAIN dates |->
                IF dates[k] \in Range(p.index)
                THEN p.data[j][RowPos(p, dates[k])] ELSE QNaN])]))

\* remove the repeated rows, keeping the first of each.
RECURSIVE drop_duplicates(_)
drop_duplicates(rows) ==
    IF rows = <<>> THEN <<>>
    ELSE LET front == drop_duplicates(SubSeq(rows, 1, Len(rows) - 1))
             last == rows[Len(rows)]
         IN IF last \in Range(front) THEN front ELSE Append(front, last)

\* ======================================================== adjust factors
\* One row of lb.secAdjFactor: symbol, trade_date, adjust_factor.
AdjRow(sym, d, f) == [symbol |-> sym, trade_date |-> d, adjust_factor |-> f]

\* get_adj_factor_raw: the typed rows without repetitions.
get_adj_factor_raw(rows) == drop_duplicates(rows)

\* res_final.div(res_final.shift(1, axis=0)).fillna(1.0): the cell of
\* column j, row k.
RatioCell_inverted(p, j, k) ==
    LET q == IF k = 1 THEN QNaN ELSE QDiv(p.data[j][k - 1], p.data[j][k])
    IN IF IsNaN(q) THEN QOne ELSE q

RatioCell(p, j, k) ==
    LET q == IF k = 1 THEN QNaN ELSE QDiv(p.data[j][k], p.data[j][k - 1])
    IN IF IsNaN(q) THEN QOne ELSE q

DivShift(p) ==
    Panel(p.index, p.columns,
          AsTuple([j \in DOMAIN p.columns |->
             AsTuple([k \in DOMAIN p.index |-> RatioCell(p, j, k)])]))

\* `if not len(dates_arr) == len(res_final.index)`
NeedsReindex(dates_arr, idx) == Len(dates_arr) # Len(idx)

\* The fill after the reindex: forward, then backward.
FillAfterReindex_forward_only(p) == ffill(p)

FillAfterReindex(p) == bfill(ffill(p))

\* The column labels: np.sort(symbol.split(',')), the requested symbols.
RequestedColumns_fetched(symbol_arr, secs) == SortedSyms(secs)

RequestedColumns(symbol_arr, secs) == SortedSyms(symbol_arr)

get_adj_factor_daily(symbol_arr, fetchedRows, cal, div) ==
    LET df_raw == get_adj_factor_raw(fetchedRows)
        secs == {df_raw[k].symbol : k \in DOMAIN df_raw}
    IN IF secs = {} THEN Raise("ValueError")  \* pd.concat: no objects to concatenate
       ELSE
       LET obs == {df_raw[k].trade_date : k \in DOMAIN df_raw}
           idx == SortedSeq(obs)
           columns == RequestedColumns(symbol_arr, secs)
           res_final ==
              Panel(idx, columns,
                 AsTuple([j \in DOMAIN columns |->
                    AsTuple([i \in DOMAIN idx |->
                       LET hit == {k \in DOMAIN df_raw :
                                     df_raw[k].symbol = columns[j] /\ df_raw[k].trade_date = idx[i]}
                       IN IF hit = {} THEN QNaN
                          ELSE Q(df_raw[SetMin(hit)].adjust_factor, 1)])]))
           dates_arr == get_trade_date_range(cal, SetMin(obs), SetMax(obs))
           aligned == IF NeedsReindex(dates_arr, idx)
                      THEN FillAfterReindex(reindex(res_final, dates_arr))
                      ELSE res_final
       IN Value(IF div THEN DivShift(aligned) ELSE aligned)

\* The fetches for the requested symbols, ordered by symbol: per symbol and
\* trade date (the table's key) no row, a row, or the same row more than
\* once.  A table cell is <<>> (no row), <<v>> (a row with value v) or
\* <<v, v>> (that row delivered twice); Reps holds the numbers of copies a
\* row may arrive in.
Cells(Values, Reps) == {<<>>} \cup {[i \in 1..n |-> v] : v \in Values, n \in Reps}

\* The keys of the fetched rows in the order of keys, one per row.
RECURSIVE PresentKeys(_, _)
PresentKeys(tab, keys) ==
    IF keys = <<>> THEN <<>>
    ELSE [i \in 1..Len(tab[Head(keys)]) |-> Head(keys)] \o PresentKeys(tab, Tail(keys))

KeySeq(symbol_arr) ==
    LET syms == SortedSyms(symbol_arr)
    IN [k \in 1..(Len(syms) * MaxDate) |->
          <<syms[((k - 1) \div MaxDate) + 1], ((k - 1) % MaxDate) + 1>>]

Requests == (SUBSET Symbols) \ {{}}

CallAdjFactorDaily(Reqs, Values, Reps, Divs, Msgs) ==
    /\ pc = "idle"
    /\ \E symbol_arr \in Reqs, div \in Divs, msg \in Msgs :
         \E tab \in [Range(KeySeq(symbol_arr)) -> Cells(Values, Reps)] :
            LET keys == PresentKeys(tab, KeySeq(symbol_arr))
                rows == [k \in DOMAIN keys |-> AdjRow(keys[k][1], keys[k][2], tab[keys[k]][1])]
            IN /\ call' = [op |-> "get_adj_factor_daily", symbol |-> symbol_arr,
                           start_date |-> 1, end_date |-> MaxDate, div |-> div]
               /\ fetched' = [rows |-> rows, msg |-> msg]
               /\ stdout' = PrintIfError(msg)
               /\ ret' = get_adj_factor_daily(symbol_arr, rows, calendar, div)
    /\ pc' = "done"
    /\ UNCHANGED <<calendar, instances, inits, logins>>

\* ============================================================== industry
\* One row of lb.secIndustry: symbol, in_date (the announcement date) and
\* the industry code of the level asked for.
IndustryRow(sym, d, c) == [symbol |-> sym, in_date |-> d, code |-> c]

\* get_industry_raw: in_date as int, repeated rows removed.
get_industry_raw(rows) == drop_duplicates(rows)

\* df.sort_values(by='in_date').reset_index(): the rows of one symbol by
\* ascending in_date, numbered from the first.
RECURSIVE SortByInDate(_)
SortByInDate(S) ==
    IF S = {} THEN <<>>
    ELSE LET first == CHOOSE r \in S : \A q \in S : r.in_date <= q.in_date
         IN <<first>> \o SortByInDate(S \ {first})

\* align.align for one column and one date: of the rows whose announcement
\* date is on or before the date, the value of the last one; NaN when there
\* is none (ann and val hold NaN below a symbol's last row).
RECURSIVE get_nearest(_, _, _, _)
get_nearest(ann, val, date, j) ==
    IF j < 1 THEN QNaN
    ELSE IF ~IsNaN(ann[j]) /\ ann[j].n <= date THEN val[j]
    ELSE get_nearest(ann, val, date, j - 1)

align(df_value, df_ann, date_arr) ==
    Panel(date_arr, df_value.columns,
          AsTuple([c \in DOMAIN df_value.columns |->
             AsTuple([k \in DOMAIN date_arr |->
                get_nearest(df_ann.data[c], df_value.data[c], date_arr[k],
                            Len(df_value.index))])]))

\* str(x) of a cell: the decimal text of a code, 'nan' for NaN.
CellToStr(x) == IF IsNaN(x) THEN <<"n", "a", "n">> ELSE IntToText(x.n)

astype_str(p) ==
    Panel(p.index, p.columns,
          AsTuple([j \in DOMAIN p.columns |->
             AsTuple([k \in DOMAIN p.index |-> CellToStr(p.data[j][k])])]))

\* The fill of the dates before a symbol's first visible classification.
FillLeading(p) == bfill(p)

get_industry_daily(symbol_arr, fetchedRows, dates_arr) ==
    LET df_raw == get_industry_raw(fetchedRows)
        secs == {df_raw[k].symbol : k \in DOMAIN df_raw}
    IN IF secs = {} THEN Raise("ValueError")  \* pd.concat: no objects to concatenate
       ELSE
       LET dic_sec == [sec \in secs |->
                         SortByInDate({df_raw[k] : k \in {i \in DOMAIN df_raw :
                                                            df_raw[i].symbol = sec}})]
           n == SetMax({Len(dic_sec[sec]) : sec \in secs})
           idx == AsTuple([i \in 1..n |-> i - 1])
           columns == RequestedColumns(symbol_arr, secs)
           df_ann == Panel(idx, columns,
                       AsTuple([j \in DOMAIN columns |-> AsTuple([i \in 1..n |->
                          IF columns[j] \in secs /\ i <= Len(dic_sec[columns[j]])
                          THEN Q(dic_sec[columns[j]][i].in_date, 1) ELSE QNaN])]))
           df_value == Panel(idx, columns,
                       AsTuple([j \in DOMAIN columns |-> AsTuple([i \in 1..n |->
                          IF columns[j] \in secs /\ i <= Len(dic_sec[columns[j]])
                          THEN Q(dic_sec[columns[j]][i].code, 1) ELSE QNaN])]))
           df_industry == align(df_value, df_ann, dates_arr)
       IN Value(astype_str(FillLeading(df_industry)))

CallIndustryDaily(Reqs, Values, Reps, Msgs) ==
    /\ pc = "idle"
    /\ \E symbol_arr \in Reqs, msg \in Msgs :
         \E tab \in [Range(KeySeq(symbol_arr)) -> Cells(Values, Reps)] :
            LET keys == PresentKeys(tab, KeySeq(symbol_arr))
                rows == [k \in DOMAIN keys |->
                           IndustryRow(keys[k][1], keys[k][2], tab[keys[k]][1])]
            IN /\ call' = [op |-> "get_industry_daily", symbol |-> symbol_arr,
                           start_date |-> 1, end_date |-> MaxDate]
               /\ fetched' = [rows |-> rows, msg |-> msg]
               /\ stdout' = PrintIfError(msg)
               /\ ret' = get_industry_daily(symbol_arr, rows,
                                            get_trade_date_range(calendar, 1, MaxDate))
    /\ pc' = "done"
    /\ UNCHANGED <<calendar, instances, inits, logins>>

\* ========================================================= index weights
\* jutil.get_next_period_day(td, 'month', 1): the first day of the period
\* after the one td lies in; the periods start at the multiples of
\* PeriodLen, whether or not those are trading days.
get_next_period_day(td) == ((td \div PeriodLen) + 1) * PeriodLen

\* The dates the loop fetches a snapshot for: start_date, then period by
\* period while td <= end_date.
RECURSIVE SnapshotDays(_, _)
SnapshotDays(td, end_date) ==
    IF td > end_date THEN <<>>
    ELSE <<td>> \o SnapshotDays(get_next_period_day(td), end_date)

\* res.update(merge): the rows of merge whose label is a row label of res
\* overwrite that row; the others are not taken.
update(res_index, tds, k) == res_index[k] \in Range(tds)

\* The snapshots are indexed by symbol (set_index('symbol')) as fetched: a
\* symbol whose row a snapshot holds more than once is a repeated label,
\* and neither pd.concat(dic, axis=1) nor res.update(merge) can reindex an
\* axis with a repeated label.
UniqueLabels(snaps, tds) ==
    \A i \in DOMAIN tds : \A e \in Symbols : Len(snaps[tds[i]][e]) <= 1

\* snaps[td][e] holds the weights of the rows of symbol e in the snapshot
\* fetched for td: <<w>> for one row of weight w, <<>> when the snapshot
\* does not hold e.
get_index_weights_daily(snaps, trade_dates) ==
    IF trade_dates = <<>> THEN Raise("IndexError")  \* trade_dates[0]
    ELSE IF ~UniqueLabels(snaps, SnapshotDays(trade_dates[1], trade_dates[Len(trade_dates)]))
    THEN Raise("ValueError")  \* cannot reindex from a duplicate axis
    ELSE
    LET start_date == trade_dates[1]
        end_date == trade_dates[Len(trade_dates)]
        tds == SnapshotDays(start_date, end_date)
        symbols_set == {e \in Symbols : \E i \in DOMAIN tds : snaps[tds[i]][e] # <<>>}
        columns == SortedSyms(symbols_set)
        \* merge, after fillna(0.0): the weight, 0.0 for a symbol a snapshot lacks
        merge(td, e) == IF snaps[td][e] = <<>> THEN Q(0, 1) ELSE Q(snaps[td][e][1], 1)
        res == Panel(trade_dates, columns,
                  AsTuple([j \in DOMAIN columns |-> AsTuple([k \in DOMAIN trade_dates |->
                     IF update(trade_dates, tds, k)
                     THEN merge(trade_dates[k], columns[j]) ELSE QNaN])]))
    IN Value(ffill(res))

CallIndexWeightsDaily(Values, Reps, Msgs) ==
    /\ pc = "idle"
    /\ \E start_date \in Dates, msg \in Msgs :
         \E end_date \in start_date..MaxDate :
            LET trade_dates == get_trade_date_range(calendar, start_date, end_date)
                days == IF trade_dates = <<>> THEN {}
                        ELSE Range(SnapshotDays(trade_dates[1], trade_dates[Len(trade_dates)]))
            IN \E snaps \in [days -> [Symbols -> Cells(Values, Reps)]] :
                 /\ call' = [op |-> "get_index_weights_daily",
                             start_date |-> start_date, end_date |-> end_date]
                 /\ fetched' = [rows |-> snaps, msg |-> msg]
                 /\ stdout' = IF msg = "0," THEN <<>>
                              ELSE [i \in 1..Cardinality(days) |-> msg]
                 /\ ret' = get_index_weights_daily(snaps, trade_dates)
    /\ pc' = "done"
    /\ UNCHANGED <<calendar, instances, inits, logins>>

\* ============================================================ minute bars
\* trade.common.MINBAR_TYPE: the minute-bar types a caller may ask for.
MinBarTypes == {"1m", "5m", "15m"}

\* The keyword arguments RemoteDataService.bar passes to self.api.bar.
BarRequest(symbol, fields, start_time, end_time, trade_date, freq) ==
    [symbol |-> symbol, fields |-> fields, start_time |-> start_time,
     end_time |-> end_time, trade_date |-> trade_date, freq |-> "1m",
     data_format |-> ""]

\* The remote answers a bar request with bars of the type the request
\* names, for the symbols it names.
BarsFor(request) == [symbol |-> request.symbol, freq |-> request.freq]

\* bar: one request to the remote client; its answer (df, msg) is returned
\* as it is.
CallBar(Freqs, Msgs) ==
    /\ pc = "idle"
    /\ \E symbol \in Requests, freq \in Freqs, msg \in Msgs,
          trade_date \in Dates, fields \in {"", "close"} :
         LET request == BarRequest(symbol, fields, 200000, 160000, trade_date, freq)
         IN /\ call' = [op |-> "bar", symbol |-> symbol, fields |-> fields,
                        start_time |-> 200000, end_time |-> 160000,
                        trade_date |-> trade_date, freq |-> freq]
            /\ fetched' = [request |-> request, rows |-> BarsFor(request), msg |-> msg]
            /\ ret' = [kind |-> "value", df |-> BarsFor(request), exc |-> "none", msg |-> msg]
            /\ stdout' = <<>>
    /\ pc' = "done"
    /\ UNCHANGED <<calendar, instances, inits, logins>>

\* ============================================================== Singleton
\* The classes whose metaclass is Singleton.
Classes == {"RemoteDataService"}

\* etc/data_config.json and the remote's answer to the login: the file
\* lacks the address, the username or the password; or it has them and the
\* login succeeds or is refused.
InitOutcomes == {"no config", "login ok", "login refused"}

\* What a call of the class hands back: the object, named by the ordinal
\* of the construction that made it.
Instance(obj) == [kind |-> "value", obj |-> obj, exc |-> "none", msg |-> "none"]

\* `cls not in cls._instances`, negated.
Registered_never(cls, reg) == FALSE

Registered(cls, reg) == cls \in DOMAIN reg

\* cls._instances[cls] = obj
Store(reg, cls, obj) ==
    [c \in DOMAIN reg \cup {cls} |-> IF c = cls THEN obj ELSE reg[c]]

\* Singleton.__call__: a class that is not in the registry is constructed
\* (RemoteDataService.__init__: ValueError without a full config, else the
\* login, whose refusal is only printed) and stored; the stored instance is
\* returned.
SingletonCall ==
    /\ pc = "idle"
    /\ \E cls \in Classes :
         /\ call' = [op |-> "Singleton.__call__", cls |-> cls]
         /\ IF Registered(cls, instances)
            THEN /\ ret' = Instance(instances[cls])
                 /\ stdout' = <<>>
                 /\ UNCHANGED <<instances, inits, logins>>
            ELSE /\ inits < MaxInits
                 /\ inits' = inits + 1
                 /\ \E outcome \in InitOutcomes :
                      IF outcome = "no config"
                      THEN /\ ret' = Raise("ValueError")
                           /\ stdout' = <<>>
                           /\ UNCHANGED <<instances, logins>>
                      ELSE /\ logins' = logins + 1
                           /\ stdout' = IF outcome = "login ok"
                                         THEN <<"DataAPI login success.">>
                                         ELSE <<"-1,login refused">>
                           /\ instances' = Store(instances, cls, inits + 1)
                           /\ ret' = Instance(inits + 1)
    /\ pc' = "done"
    /\ UNCHANGED <<calendar, fetched>>

\* The caller takes the result; the service keeps nothing of the query.
Return ==
    /\ pc = "done"
    /\ pc' = "idle"
    /\ call' = [op |-> "none"]
    /\ fetched' = [msg |-> "0,"]
    /\ ret' = NoRet
    /\ stdout' = <<>>
    /\ UNCHANGED <<calendar, instances, inits, logins>>

\* The module is loaded: the registry is empty, nothing is constructed.
InitModule ==
    /\ calendar \in Calendars
    /\ pc = "idle"
    /\ call = [op |-> "none"]
    /\ fetched = [msg |-> "0,"]
    /\ ret = NoRet
    /\ stdout = <<>>
    /\ instances = <<>>
    /\ inits = 0
    /\ logins = 0

\* The service has been constructed, once, and is in the registry.
Init ==
    /\ calendar \in Calendars
    /\ pc = "idle"
    /\ call = [op |-> "none"]
    /\ fetched = [msg |-> "0,"]
    /\ ret = NoRet
    /\ stdout = <<>>
    /\ instances = [cls \in {"RemoteDataService"} |-> 1]
    /\ inits = 1
    /\ logins = 1

\* Every operation, with every fetch status.
Next ==
    \/ CallIndexCompDf(CleanCompRows, StatusMsgs)
    \/ CallIndexCompDf(DirtyCompRows, StatusMsgs)
    \/ CallAdjFactorDaily(Requests, {1, 2}, {1}, {FALSE, TRUE}, StatusMsgs)
    \/ CallIndustryDaily(Requests, {1, 2}, {1}, StatusMsgs)
    \/ CallIndexWeightsDaily({1, 2}, {1}, StatusMsgs)
    \/ Return
Spec == Init /\ [][Next]_vars

\* Membership panels of well-typed rows.
NextComp == CallIndexCompDf(CleanCompRows, {"0,"}) \/ Return
SpecComp == Init /\ [][NextComp]_vars

\* Membership panels of rows whose date fields come in every type.
NextCoerce == CallIndexCompDf(DirtyCompRows, {"0,"}) \/ Return
SpecCoerce == Init /\ [][NextCoerce]_vars

\* Absolute adjustment factors.
NextAdj == CallAdjFactorDaily(Requests, {1, 2}, {1}, {FALSE}, {"0,"}) \/ Return
SpecAdj == Init /\ [][NextAdj]_vars

\* Ratio panels of one symbol, factors that may be zero.
NextRatio == CallAdjFactorDaily({{"a"}}, {0, 1, 2}, {1}, {TRUE}, {"0,"}) \/ Return
SpecRatio == Init /\ [][NextRatio]_vars

\* Industry classification.
NextIndustry == CallIndustryDaily(Requests, {1, 2}, {1}, {"0,"}) \/ Return
SpecIndustry == Init /\ [][NextIndustry]_vars

\* Index weights.
NextWeights == CallIndexWeightsDaily({1, 2}, {1}, {"0,"}) \/ Return
SpecWeights == Init /\ [][NextWeights]_vars

\* The four panel operations, one value per table (the axes of a panel do
\* not depend on the values).
NextColumns ==
    \/ CallIndexCompDf(CleanCompRows, {"0,"})
    \/ CallAdjFactorDaily(Requests, {1}, {1}, {FALSE, TRUE}, {"0,"})
    \/ CallIndustryDaily(Requests, {1}, {1}, {"0,"})
    \/ CallIndexWeightsDaily({1}, {1}, {"0,"})
    \/ Return
SpecColumns == Init /\ [][NextColumns]_vars

\* Calls of the class, from the loading of the module.
NextSingleton == SingletonCall \/ Return
SpecSingleton == InitModule /\ [][NextSingleton]_vars

\* Minute bars of every type.
NextBar == CallBar(MinBarTypes, StatusMsgs) \/ Return
SpecBar == Init /\ [][NextBar]_vars

\* The four panel operations on fetches in which a row may arrive twice.
NextDup ==
    \/ CallIndexCompDf(CleanCompRows, {"0,"})
    \/ CallAdjFactorDaily(Requests, {1}, {1, 2}, {FALSE}, {"0,"})
    \/ CallIndustryDaily(Requests, {1}, {1, 2}, {"0,"})
    \/ CallIndexWeightsDaily({1}, {1, 2}, {"0,"})
    \/ Return
SpecDup == Init /\ [][NextDup]_vars

Done(opname) == pc = "done" /\ call.op = opname

\* What the claims read of a fetched date field: a blank text is the
\* open-ended sentinel, a numeric text its integer, a number itself.
IsText(f) == f.t = "str"
IsBlank(f) == IsText(f) /\ f.s = <<>>
IsNumericText(f) == IsText(f) /\ f.s # <<>> /\ \A i \in DOMAIN f.s : IsDigit(f.s[i])
IsNumber(f) == f.t \in {"int", "float"}
DateOf(f) == IF IsBlank(f) THEN Num(99999999)
             ELSE IF IsNumericText(f) THEN Num(ParseInt(f.s))
             ELSE f.v
StrictlyInside(d, row) ==
    LET i == DateOf(row.in_date)
        o == DateOf(row.out_date)
    IN ~i.nan /\ ~o.nan /\ i.v < d /\ d < o.v

FieldsOf(rows) == {rows[k].in_date : k \in DOMAIN rows} \cup {rows[k].out_date : k \in DOMAIN rows}
SymbolsOf(rows) == {rows[k].symbol : k \in DOMAIN rows}

\* C1: in get_index_comp_df, for every fetched symbol e and axis date d the
\* cell [d, e] is 1 exactly when some fetched row of e has
\* in_date < d < out_date (both strict), and 0 otherwise.
C1_IntervalMembership ==
    (Done("get_index_comp_df") /\ ret.kind = "value") =>
      LET rows == fetched.rows
          p == ret.panel
      IN \A e \in SymbolsOf(rows) : \A d \in Range(p.index) :
           LET member == \E k \in DOMAIN rows :
                            rows[k].symbol = e /\ StrictlyInside(d, rows[k])
           IN Cell(p, d, e) = (IF member THEN 1 ELSE 0)

\* A symbol with two rows where a date equal to one row's in_date lies
\* strictly inside the other row's interval, and is a member; and a date
\* equal to the only covering row's in_date, which is not.
C1_Witness ==
    /\ Done("get_index_comp_df") /\ ret.kind = "value"
    /\ \E j, k \in DOMAIN fetched.rows : \E d \in Range(ret.panel.index) :
         /\ j # k
         /\ fetched.rows[j].symbol = fetched.rows[k].symbol
         /\ DateOf(fetched.rows[j].in_date) = Num(d)
         /\ StrictlyInside(d, fetched.rows[k])
         /\ Cell(ret.panel, d, fetched.rows[j].symbol) = 1
    /\ \E k \in DOMAIN fetched.rows : \E d \in Range(ret.panel.index) :
         /\ DateOf(fetched.rows[k].in_date) = Num(d)
         /\ Cell(ret.panel, d, fetched.rows[k].symbol) = 0

\* C10 as stated: every date field of a type other than text is rejected
\* and the query aborted, so no panel is returned for such a fetch.
C10_OtherTypesRejected ==
    Done("get_index_comp_df") =>
      ((\E f \in FieldsOf(fetched.rows) : ~IsText(f)) => ret.kind = "raise")

\* C10 amended: a blank text becomes 99999999, a numeric text its integer,
\* an int or a float is passed through unchanged (a float NaN compares
\* false with every date); a value of any other type, or a non-blank text
\* that is not numeric, raises and aborts the query.  A panel is returned
\* exactly when no field is rejected, and its cells are the memberships of
\* the coerced dates.
C10_Coercion ==
    Done("get_index_comp_df") =>
      LET rows == fetched.rows
          rejected == {f \in FieldsOf(rows) : ~(IsBlank(f) \/ IsNumericText(f) \/ IsNumber(f))}
      IN /\ (ret.kind = "raise") <=> (rejected # {})
         /\ ret.kind = "raise" =>
              /\ ret.exc \in {"NotImplementedError", "ValueError"}
              /\ ret.exc = "NotImplementedError" => \E f \in rejected : ~IsText(f)
              /\ ret.exc = "ValueError" => \E f \in rejected : IsText(f)
         /\ ret.kind = "value" =>
              \A e \in SymbolsOf(rows) : \A d \in Range(ret.panel.index) :
                 Cell(ret.panel, d, e) =
                    (IF \E k \in DOMAIN rows : rows[k].symbol = e /\ StrictlyInside(d, rows[k])
                     THEN 1 ELSE 0)

\* An int in_date passed through and a blank out_date read as the sentinel
\* make a member; a float NaN out_date makes none; both in one panel.
C10_Witness ==
    /\ Done("get_index_comp_df") /\ ret.kind = "value"
    /\ \E k \in DOMAIN fetched.rows : \E d \in Range(ret.panel.index) :
         /\ fetched.rows[k].in_date.t = "int"
         /\ IsBlank(fetched.rows[k].out_date)
         /\ Cell(ret.panel, d, fetched.rows[k].symbol) = 1
    /\ \E k \in DOMAIN fetched.rows :
         /\ fetched.rows[k].out_date.t = "float"
         /\ \A d \in Range(ret.panel.index) :
               Cell(ret.panel, d, fetched.rows[k].symbol) = 0

\* ---------------------------------------------------------------- C3
AdjRows == fetched.rows
ObsDates == {AdjRows[k].trade_date : k \in DOMAIN AdjRows}
SpanDates == {d \in calendar : SetMin(ObsDates) <= d /\ d <= SetMax(ObsDates)}
HasRecord(e, d) == \E k \in DOMAIN AdjRows : AdjRows[k].symbol = e /\ AdjRows[k].trade_date = d
FactorAt(e, d) ==
    LET k == CHOOSE k \in DOMAIN AdjRows : AdjRows[k].symbol = e /\ AdjRows[k].trade_date = d
    IN Q(AdjRows[k].adjust_factor, 1)
AbsoluteCall == Done("get_adj_factor_daily") /\ ~call.div /\ ret.kind = "value"

RatioCall == Done("get_adj_factor_daily") /\ call.div /\ ret.kind = "value"

\* The absolute-factor panel of the same query.
AbsolutePanel == get_adj_factor_daily(call.symbol, fetched.rows, calendar, FALSE).panel

QMul(x, y) == Q(x.n * y.n, x.d * y.d)

\* C6: with div=True the panel has the axes of the absolute panel, a first
\* row of 1.0, every later cell value[d]/value[d-1] when both are filled and
\* the denominator is not zero, and exactly 1.0 wherever that division is
\* undefined, so no cell is unfilled or infinite.
C6_RatioPanel ==
    RatioCall =>
      LET P == AbsolutePanel
          R == ret.panel
      IN /\ R.index = P.index /\ R.columns = P.columns
         /\ \A j \in DOMAIN R.columns : \A k \in DOMAIN R.index :
              LET defined == /\ k > 1
                             /\ ~IsNaN(P.data[j][k]) /\ ~IsNaN(P.data[j][k - 1])
                             /\ P.data[j][k - 1].n # 0
              IN /\ IsFinite(R.data[j][k]) /\ ~IsNaN(R.data[j][k])
                 /\ R.data[j][k] = (IF defined
                                    THEN Q(P.data[j][k].n * P.data[j][k - 1].d,
                                           P.data[j][k].d * P.data[j][k - 1].n)
                                    ELSE QOne)

\* The running product of a column from its first row down to row k.
RECURSIVE RunningProduct(_, _)
RunningProduct(col, k) == IF k = 0 THEN QOne ELSE QMul(RunningProduct(col, k - 1), col[k])

\* No gap needed filling: every column has a record on every row date.
FullyObserved(P) ==
    \A j \in DOMAIN P.columns : \A k \in DOMAIN P.index : HasRecord(P.columns[j], P.index[k])
NoZeroCell(P) ==
    \A j \in DOMAIN P.columns : \A k \in DOMAIN P.index : P.data[j][k].n # 0

\* C7 as stated: for a fully filled absolute panel P the running product of
\* the ratio panel down each column reproduces P cell for cell.
C7_RunningProductIsPanel ==
    RatioCall =>
      LET P == AbsolutePanel
      IN (FullyObserved(P) /\ NoZeroCell(P)) =>
           \A j \in DOMAIN P.columns : \A k \in DOMAIN P.index :
              RunningProduct(ret.panel.data[j], k) = P.data[j][k]

\* C7 amended: for a fully filled absolute panel P with no zero cell, the
\* first-row value of P times the running product of the ratio panel down
\* each column reproduces P cell for cell (the ratio panel's first row is
\* 1.0, so the running product alone gives P relative to its first row).
C7_RoundTripFromFirstRow ==
    RatioCall =>
      LET P == AbsolutePanel
      IN (FullyObserved(P) /\ NoZeroCell(P)) =>
           \A j \in DOMAIN P.columns : \A k \in DOMAIN P.index :
              QMul(P.data[j][1], RunningProduct(ret.panel.data[j], k)) = P.data[j][k]

\* A fully filled panel of three rows whose first row is not 1.0 and whose
\* factor changes, reproduced from its ratios.
C7_Witness ==
    /\ RatioCall
    /\ FullyObserved(AbsolutePanel) /\ NoZeroCell(AbsolutePanel)
    /\ Len(ret.panel.index) >= 3
    /\ \E j \in DOMAIN ret.panel.columns :
         /\ AbsolutePanel.data[j][1] # QOne
         /\ ret.panel.data[j][2] # QOne
         /\ QMul(AbsolutePanel.data[j][1], RunningProduct(ret.panel.data[j], 3))
               = AbsolutePanel.data[j][3]

\* ---------------------------------------------------------------- C2
PanelOps == {"get_index_weights_daily", "get_index_comp_df",
             "get_industry_daily", "get_adj_factor_daily"}
PanelReturned == pc = "done" /\ call.op \in PanelOps /\ ret.kind = "value"

\* The distinct symbols of the rows the query fetched.
FetchedSymbols ==
    IF call.op = "get_index_weights_daily"
    THEN {e \in Symbols : \E td \in DOMAIN fetched.rows : fetched.rows[td][e] # <<>>}
    ELSE {fetched.rows[k].symbol : k \in DOMAIN fetched.rows}

C4_LatestSnapshot ==
    (Done("get_index_weights_daily") /\ ret.kind = "value") =>
      /\ Range(ret.panel.index) = {d \in calendar : call.start_date <= d /\ d <= call.end_date}
      /\ \A e \in FetchedSymbols : \A d \in Range(ret.panel.index) :
           LET latest == SetMax({td \in DOMAIN fetched.rows : td <= d})
               snap == fetched.rows[latest]
           IN Cell(ret.panel, d, e) =
                (IF snap[e] = <<>> THEN Q(0, 1) ELSE Q(snap[e][1], 1))

\* ---------------------------------------------------------------- C5
IndRows == fetched.rows
Announced(e) == {IndRows[k].in_date : k \in {i \in DOMAIN IndRows : IndRows[i].symbol = e}}
CodeAt(e, d) ==
    LET k == CHOOSE k \in DOMAIN IndRows : IndRows[k].symbol = e /\ IndRows[k].in_date = d
    IN IntToText(IndRows[k].code)

\* C5: in get_industry_daily, for every symbol e with a fetched record and
\* every axis date d, the cell is the code of e's record with the latest
\* announcement date <= d when d is on or after e's earliest announcement,
\* and the code of e's earliest record when d is before it.
C5_AnnouncementGated ==
    (Done("get_industry_daily") /\ ret.kind = "value") =>
      \A e \in FetchedSymbols : \A d \in Range(ret.panel.index) :
         LET visible == {x \in Announced(e) : x <= d}
         IN Cell(ret.panel, d, e) =
              (IF visible # {} THEN CodeAt(e, SetMax(visible))
               ELSE CodeAt(e, SetMin(Announced(e))))

\* ---------------------------------------------------------------- C8
EmptyFetch ==
    IF call.op = "get_index_weights_daily"
    THEN \A td \in DOMAIN fetched.rows : \A e \in Symbols : fetched.rows[td][e] = <<>>
    ELSE fetched.rows = <<>>

\* C8: when the raw fetch has no rows every panel operation returns,
\* without raising, a panel of no columns whose rows are the requested
\* trading dates.
C8_EmptyFetch ==
    (pc = "done" /\ call.op \in PanelOps /\ EmptyFetch /\ calendar # {}) =>
      /\ ret.kind = "value"
      /\ ret.panel.columns = <<>>
      /\ ret.panel.index = SortedSeq({d \in calendar :
                                        call.start_date <= d /\ d <= call.end_date})

\* ---------------------------------------------------------------- C9
\* C9: a fetch status other than '0,' reaches the caller of every panel
\* operation, as a message returned beside the panel or as the error
\* raised; it is never dropped.
C9_StatusReachesCaller ==
    (pc = "done" /\ call.op \in PanelOps /\ fetched.msg # "0,") =>
      \/ ret.kind = "value" /\ ret.msg = fetched.msg
      \/ ret.kind = "raise" /\ ret.exc = fetched.msg

\* ---------------------------------------------------------------- C11
\* The fetched rows without the repetitions: a row is kept when no earlier
\* row is identical to it.
Collapse(rows) ==
    LET keep == {k \in DOMAIN rows : \A j \in 1..(k - 1) : rows[j] # rows[k]}
        order == SortedSeq(keep)
    IN [i \in DOMAIN order |-> rows[order[i]]]

CollapseSnaps(snaps) ==
    [td \in DOMAIN snaps |->
       [e \in Symbols |-> IF snaps[td][e] = <<>> THEN <<>> ELSE <<snaps[td][e][1]>>]]

HasRepeatedRow ==
    IF call.op = "get_index_weights_daily"
    THEN \E td \in DOMAIN fetched.rows : \E e \in Symbols : Len(fetched.rows[td][e]) > 1
    ELSE \E j, k \in DOMAIN fetched.rows : j < k /\ fetched.rows[j] = fetched.rows[k]

\* What the operation of the call returns for the fetch without its
\* repetitions.
ResultWithoutRepeats ==
    IF call.op = "get_index_weights_daily"
    THEN get_index_weights_daily(CollapseSnaps(fetched.rows),
            get_trade_date_range(calendar, call.start_date, call.end_date))
    ELSE IF call.op = "get_index_comp_df"
    THEN get_index_comp_df(Collapse(fetched.rows),
            get_trade_date_range(calendar, call.start_date, call.end_date))
    ELSE IF call.op = "get_adj_factor_daily"
    THEN get_adj_factor_daily(call.symbol, Collapse(fetched.rows), calendar, call.div)
    ELSE get_industry_daily(call.symbol, Collapse(fetched.rows),
            get_trade_date_range(calendar, call.start_date, call.end_date))

\* C11: for every panel operation, when the fetch holds a row more than
\* once the operation returns what it returns for the same fetch with the
\* repetitions removed: the same panel, and no failure the fetch without
\* repetitions does not have.
C11_RepeatsCollapse ==
    (pc = "done" /\ call.op \in PanelOps /\ HasRepeatedRow) =>
      ret = ResultWithoutRepeats

\* ---------------------------------------------------------------- C12
\* C12: bar sends the caller's request to the remote client unchanged: the
\* request carries the caller's freq, symbol, fields, start_time, end_time
\* and trade_date, and the bars returned are of the freq the caller asked
\* for.
C12_BarRequestForwarded ==
    Done("bar") =>
      /\ fetched.request.freq = call.freq
      /\ fetched.request.symbol = call.symbol
      /\ fetched.request.fields = call.fields
      /\ fetched.request.start_time = call.start_time
      /\ fetched.request.end_time = call.end_time
      /\ fetched.request.trade_date = call.trade_date
      /\ ret.df.freq = call.freq

\* ---------------------------------------------------------------- C13
\* C13: in get_adj_factor_daily, for a fetch with at least one row, the rows
\* of the returned panel are exactly the trading dates from the earliest to
\* the latest observed trade_date, in order; when the observed dates are
\* not those dates (whatever their number) the panel has been forward- and
\* back-filled, so a symbol with a record on a date of the span has no
\* unfilled cell.
C13_RowsAreTradingSpan ==
    (Done("get_adj_factor_daily") /\ ret.kind = "value" /\ AdjRows # <<>>) =>
      /\ ret.panel.index = SortedSeq(SpanDates)
      /\ ObsDates # SpanDates =>
            \A e \in call.symbol :
               (\E d \in SpanDates : HasRecord(e, d)) =>
                  \A d \in Range(ret.panel.index) : ~IsNaN(Cell(ret.panel, d, e))

\* ---------------------------------------------------------------- C14
\* C14: over any sequence of calls of a class whose metaclass is Singleton,
\* an entry of the registry is never replaced or removed; a call that finds
\* the class in the registry returns the stored instance without running
\* the constructor or the login; a call that does not find it runs the
\* constructor once and what it returns is a new instance, stored under the
\* class; the login has run at most once per class of the registry.
C14_Singleton ==
    [][ /\ \A c \in DOMAIN instances :
             c \in DOMAIN instances' /\ instances'[c] = instances[c]
        /\ logins' <= Cardinality(DOMAIN instances')
        /\ (pc = "idle" /\ pc' = "done" /\ call'.op = "Singleton.__call__") =>
             IF call'.cls \in DOMAIN instances
             THEN /\ ret' = Instance(instances[call'.cls])
                  /\ inits' = inits /\ logins' = logins
             ELSE /\ inits' = inits + 1
                  /\ ret'.kind = "value" =>
                        /\ call'.cls \in DOMAIN instances'
                        /\ instances'[call'.cls] = ret'.obj
                        /\ \A c \in DOMAIN instances : instances[c] # ret'.obj
      ]_vars

\* A later call has returned the stored instance: nothing was printed by a
\* constructor, and one construction and one login have run in all.
C14_Witness ==
    /\ Done("Singleton.__call__") /\ ret.kind = "value"
    /\ stdout = <<>>
    /\ ret.obj = instances[call.cls]
    /\ inits = 1 /\ logins = 1

====
